---- MODULE Spec2Model ----
(***************************************************************************)
(* A model of src/main.py, the MedAI backend: the patients and records     *)
(* tables, the shared API key check and the six HTTP handlers.             *)
(*                                                                         *)
(* Handlers run concurrently (FastAPI runs plain "def" handlers on a       *)
(* thread pool).  Each action below is the local computation of a handler  *)
(* up to and including its next access to the database, so a handler with  *)
(* two database round trips (a lookup, then a query or an insert) is two   *)
(* actions and other handlers may run in between.                          *)
(*                                                                         *)
(* Values that are dynamically typed in Python (the JSON request bodies)   *)
(* are records of one shape, [kind, text, num, members], so that any two   *)
(* of them can be compared.  Strings are atomic in TLA+, so the category   *)
(* strings the summary searches are spelled out by Spell.  Non-ASCII       *)
(* letters of the source's literals are written without diacritics.        *)
(***************************************************************************)
EXTENDS Integers, Sequences, FiniteSets, TLC

(***************************************************************************)
(* Bounds of the model.                                                    *)
(***************************************************************************)
\* Rows the patients table may hold (its capacity beyond one row per UID is
\* only ever used when the unique constraint is taken away).
MaxPatients == 2
\* Rows the records table may hold.
MaxRecords == 2
\* Timestamps are counted in ticks, TicksPerDay of them to a calendar day.
TicksPerDay == 2
\* The latest tick a submitted timestamp names.
MaxTick == 2

\* The handlers that may be in flight at once.
Workers == {"w1", "w2"}

(***************************************************************************)
(* JSON values, as the request bodies carry them.                          *)
(***************************************************************************)
JNull == [kind |-> "null", text |-> "", num |-> 0, members |-> <<>>]
JStr(s) == [kind |-> "string", text |-> s, num |-> 0, members |-> <<>>]
JNum(n) == [kind |-> "number", text |-> "", num |-> n, members |-> <<>>]
JObj(m) == [kind |-> "object", text |-> "", num |-> 0, members |-> m]
Member(k, v) == [key |-> k, value |-> v]

(***************************************************************************)
(* The JSON column type: content is serialised when a row is written and   *)
(* parsed when it is read.  The serialised form is a sequence of tokens.   *)
(***************************************************************************)
Tok(t, s, n) == [tok |-> t, text |-> s, num |-> n]

ScalarToken(v) ==
    CASE v.kind = "null" -> Tok("null", "", 0)
      [] v.kind = "string" -> Tok("str", v.text, 0)
      [] OTHER -> Tok("num", "", v.num)

RECURSIVE MemberTokens(_)
MemberTokens(m) ==
    IF m = <<>> THEN <<>>
    ELSE <<Tok("str", m[1].key, 0), Tok(":", "", 0), ScalarToken(m[1].value)>>
         \o (IF Len(m) > 1 THEN <<Tok(",", "", 0)>> ELSE <<>>)
         \o MemberTokens(Tail(m))

\* (a String column in place of the JSON one: only the text is kept)
DumpsAsText(v) == <<Tok("str", v.text, 0)>>

JsonDumps(v) ==
    IF v.kind = "object"
    THEN <<Tok("{", "", 0)>> \o MemberTokens(v.members) \o <<Tok("}", "", 0)>>
    ELSE <<ScalarToken(v)>>

TokenScalar(t) ==
    CASE t.tok = "null" -> JNull
      [] t.tok = "str" -> JStr(t.text)
      [] OTHER -> JNum(t.num)

RECURSIVE ParseMembers(_, _)
ParseMembers(toks, i) ==
    IF toks[i].tok = "}" THEN <<>>
    ELSE LET j == IF toks[i].tok = "," THEN i + 1 ELSE i
         IN  <<Member(toks[j].text, TokenScalar(toks[j + 2]))>>
             \o ParseMembers(toks, j + 3)

JsonLoads(toks) ==
    IF toks[1].tok = "{" THEN JObj(ParseMembers(toks, 2))
    ELSE TokenScalar(toks[1])

(***************************************************************************)
(* Strings the summary searches, spelled out and lower-cased.              *)
(***************************************************************************)
Spell(s) ==
    CASE s = "LAB" -> <<"L", "A", "B">>
      [] s = "DIAG" -> <<"D", "I", "A", "G">>
      [] s = "LIECBA" -> <<"L", "I", "E", "C", "B", "A">>
      [] s = "VIZITA" -> <<"V", "I", "Z", "I", "T", "A">>
      [] s = "diag" -> <<"d", "i", "a", "g">>
      [] s = "lie" -> <<"l", "i", "e">>
      [] s = "lab" -> <<"l", "a", "b">>
      [] s = "viz" -> <<"v", "i", "z">>
      [] OTHER -> <<>>

LowerChar(c) ==
    CASE c = "A" -> "a" [] c = "B" -> "b" [] c = "C" -> "c" [] c = "D" -> "d"
      [] c = "E" -> "e" [] c = "G" -> "g" [] c = "I" -> "i" [] c = "L" -> "l"
      [] c = "T" -> "t" [] c = "V" -> "v" [] c = "Z" -> "z" [] OTHER -> c

Lower(chars) == [i \in DOMAIN chars |-> LowerChar(chars[i])]

\* needle in chars
Contains(chars, needle) ==
    \E i \in 1..(Len(chars) - Len(needle) + 1) :
        SubSeq(chars, i, i + Len(needle) - 1) = needle

(***************************************************************************)
(* Settings.                                                               *)
(***************************************************************************)
API_KEY == "m3dAI_7YtqgY2WJr9vQdXz"

\* The x-api-key header: absent (None) or a string.
NoHeader == [present |-> FALSE, value |-> ""]
Header(s) == [present |-> TRUE, value |-> s]
Keys == {Header(API_KEY), Header("wrong"), NoHeader}

UIDs == {"P001", "P002"}

(***************************************************************************)
(* Request bodies.                                                         *)
(***************************************************************************)
\* POST /patients bodies: two for P001 that differ in every other field (one
\* without gender), one for P002, and one without patient_uid.
PatientBodies ==
    { [patient_uid |-> "P001", first_name |-> "Jan", last_name |-> "Novak"],
      [patient_uid |-> "P001", first_name |-> "Eva", last_name |-> "Kovac",
       gender |-> "F"],
      [patient_uid |-> "P002", first_name |-> "Eva", last_name |-> "Kovac",
       gender |-> "F"],
      [first_name |-> "Jan", last_name |-> "Novak"] }

\* An ISO-8601 timestamp string: well-formed or not, naming a tick, with or
\* without the "Z" suffix.
Iso(t, z) == [wellformed |-> TRUE, tick |-> t, z |-> z]
BadIso == [wellformed |-> FALSE, tick |-> 0, z |-> FALSE]

CRP150 == JObj(<<Member("test", JStr("CRP")), Member("value", JNum(150))>>)
Dx == JObj(<<Member("dx", JStr("J18.9"))>>)

\* POST /patients/{uid}/records bodies.  Complete ones: two with the same
\* timestamp, one earlier and one later than those.  Then ones that omit the
\* category, the timestamp or both, and one with a malformed timestamp.
RecordBodies ==
    { [category |-> JStr("LAB"), timestamp |-> Iso(1, TRUE), content |-> CRP150],
      [category |-> JStr("DIAG"), timestamp |-> Iso(1, TRUE), content |-> Dx],
      [category |-> JNull, timestamp |-> Iso(0, FALSE),
       content |-> JStr("bez nalezu")],
      [category |-> JStr("LIECBA"), timestamp |-> Iso(MaxTick, TRUE),
       content |-> JStr("amoxicilin")],
      [timestamp |-> Iso(1, TRUE), content |-> JStr("CRP 120 mg/L")],
      [category |-> JStr("LAB"), content |-> CRP150],
      [content |-> JStr("bez nalezu")],
      [category |-> JStr("LAB"), timestamp |-> BadIso, content |-> CRP150] }

(***************************************************************************)
(* State.                                                                  *)
(***************************************************************************)
VARIABLES
    patients,   \* the patients table, in insertion order; a row's id is its position
    records,    \* the records table, in insertion order; a row's id is its position
    dbUp,       \* whether the database can be reached
    pc,         \* per worker: "idle", "found" (patient looked up) or "done"
    call,       \* per worker: the handler in flight and what it holds
    resp,       \* per worker: the response of the handler that has finished
    submitted   \* history: for each records row, the entry as it was submitted

vars == <<patients, records, dbUp, pc, call, resp, submitted>>

NoRecord == <<>>
NoCall == [op |-> "none", p |-> 0, r |-> NoRecord]
NoResp == [op |-> "none", status |-> 0, detail |-> "", body |-> <<>>]

Response(op, status, detail, body) ==
    [op |-> op, status |-> status, detail |-> detail, body |-> body]

\* An unhandled exception: the routing layer answers 500.
ServerError(op, exception) == Response(op, 500, exception, <<>>)

Init ==
    /\ patients = <<>>
    /\ records = <<>>
    /\ dbUp = TRUE
    /\ pc = [w \in Workers |-> "idle"]
    /\ call = [w \in Workers |-> NoCall]
    /\ resp = [w \in Workers |-> NoResp]
    /\ submitted = <<>>

\* A handler ends: its response is kept until the worker returns it.
Finish(w, r) ==
    /\ pc' = [pc EXCEPT ![w] = "done"]
    /\ call' = [call EXCEPT ![w] = NoCall]
    /\ resp' = [resp EXCEPT ![w] = r]

(***************************************************************************)
(* SECURITY                                                                *)
(***************************************************************************)
Unauthorized == 403

\* (a check that lets a call without the header through)
CheckKeyWhenPresent(x_api_key) == ~x_api_key.present \/ x_api_key.value = API_KEY

\* check_key passes: x_api_key == API_KEY
CheckKey(x_api_key) == x_api_key.present /\ x_api_key.value = API_KEY

InvalidKey(op) == Response(op, Unauthorized, "Invalid API key", <<>>)

(***************************************************************************)
(* ENDPOINTS                                                               *)
(***************************************************************************)
Health(w) ==
    /\ pc[w] = "idle"
    /\ Finish(w, Response("health", 200, "", [status |-> "ok"]))
    /\ UNCHANGED <<patients, records, dbUp, submitted>>

\* (the query without its filter: the first patient there is)
FirstPatient(uid) == IF patients # <<>> THEN 1 ELSE 0

\* s.query(Patient).filter(Patient.patient_uid == uid).first(): the id of the
\* row, 0 for None.
PatientByUid(uid) ==
    IF \E i \in DOMAIN patients : patients[i].patient_uid = uid
    THEN CHOOSE i \in DOMAIN patients : patients[i].patient_uid = uid
    ELSE 0

\* (the column without unique=True)
NoUniqueConstraint(uid) == FALSE

\* The unique constraint of patients.patient_uid rejects the insert.
UniqueViolation(uid) == \E i \in DOMAIN patients : patients[i].patient_uid = uid

\* created_at defaults to datetime.utcnow when the row is written; the clock is
\* modelled by the number of rows written so far.
PatientRow(patient, now) ==
    [patient_uid |-> patient.patient_uid,
     created_at |-> now,
     first_name |-> patient.first_name,
     last_name |-> patient.last_name,
     gender |-> IF "gender" \in DOMAIN patient THEN patient.gender ELSE "M"]

\* The handler reaches the database once, in s.commit(): the INSERT, which the
\* unique index serialises against every other INSERT of the same patient_uid.
CreatePatient(w, x_api_key, patient) ==
    /\ pc[w] = "idle"
    /\ IF ~CheckKey(x_api_key)
       THEN /\ Finish(w, InvalidKey("create_patient"))
            /\ UNCHANGED patients
       ELSE IF "patient_uid" \notin DOMAIN patient
       THEN /\ Finish(w, ServerError("create_patient", "KeyError"))
            /\ UNCHANGED patients
       ELSE IF ~dbUp
       THEN /\ Finish(w, ServerError("create_patient", "OperationalError"))
            /\ UNCHANGED patients
       ELSE IF UniqueViolation(patient.patient_uid)
       THEN /\ Finish(w, ServerError("create_patient", "IntegrityError"))
            /\ UNCHANGED patients
       ELSE /\ Len(patients) < MaxPatients
            /\ patients' = Append(patients, PatientRow(patient, Len(patients) + 1))
            /\ Finish(w, Response("create_patient", 200, "",
                                  [id |-> Len(patients) + 1,
                                   patient_uid |-> patient.patient_uid]))
    /\ UNCHANGED <<records, dbUp, submitted>>

\* The orderings of the rows ids under ORDER BY key: ascending by key, rows with
\* equal keys in whatever order the database returns them.
OrderBy(ids, key) ==
    { s \in [1..Cardinality(ids) -> ids] :
          /\ \A i, j \in DOMAIN s : i # j => s[i] # s[j]
          /\ \A i, j \in DOMAIN s : i < j => key[s[i]] <= key[s[j]] }

PatientView(r) ==
    [patient_uid |-> r.patient_uid, first_name |-> r.first_name,
     last_name |-> r.last_name, gender |-> r.gender, created_at |-> r.created_at]

ListPatients(w, x_api_key) ==
    /\ pc[w] = "idle"
    /\ IF ~CheckKey(x_api_key)
       THEN Finish(w, InvalidKey("list_patients"))
       ELSE IF ~dbUp
       THEN Finish(w, ServerError("list_patients", "OperationalError"))
       ELSE LET created_desc == [i \in DOMAIN patients |-> 0 - patients[i].created_at]
            IN  \E rows \in OrderBy(DOMAIN patients, created_desc) :
                    Finish(w, Response("list_patients", 200, "",
                                       [i \in DOMAIN rows |-> PatientView(patients[rows[i]])]))
    /\ UNCHANGED <<patients, records, dbUp, submitted>>

\* The first half of the three handlers that start by looking the patient up:
\* check_key, then the query for the patient, then 404 when there is none.
\* The response that ends the handler there, NoResp when the patient is found.
Lookup(op, x_api_key, patient_uid) ==
    IF ~CheckKey(x_api_key)
    THEN InvalidKey(op)
    ELSE IF ~dbUp
    THEN ServerError(op, "OperationalError")
    ELSE IF PatientByUid(patient_uid) = 0
    THEN Response(op, 404, "Patient not found", <<>>)
    ELSE NoResp

\* The handler goes on to its second access holding the patient and, for
\* add_record, the Record it has built.
Proceed(w, op, p, r) ==
    /\ pc' = [pc EXCEPT ![w] = "found"]
    /\ call' = [call EXCEPT ![w] = [op |-> op, p |-> p, r |-> r]]
    /\ UNCHANGED resp

\* datetime.fromisoformat(s.replace("Z", "+00:00")): aware when the string
\* carries the suffix, naive otherwise.
FromIsoFormat(s) == [tick |-> s.tick, aware |-> s.z]

\* The DateTime column keeps no time zone: what is stored and read back is the
\* wall-clock time, in UTC for an aware value (the session's zone is UTC).
ColumnDateTime(dt) == dt.tick

\* Record(patient=p, category=..., timestamp=..., content=...)
Record(record) ==
    [category |-> record.category,
     timestamp |-> FromIsoFormat(record.timestamp),
     content |-> record.content]

\* The row the INSERT writes for Record r of patient p.
RecordRow(p, r) ==
    [patient_id |-> p,
     category |-> r.category,
     timestamp |-> ColumnDateTime(r.timestamp),
     content |-> JsonDumps(r.content)]

InFlight(op) == Cardinality({w \in Workers : call[w].op = op})

\* add_record up to s.add(r): the lookup, then the Record is built from the body.
AddRecordLookup(w, x_api_key, patient_uid, record) ==
    /\ pc[w] = "idle"
    /\ Len(records) + InFlight("add_record") < MaxRecords
    /\ IF Lookup("add_record", x_api_key, patient_uid) # NoResp
       THEN Finish(w, Lookup("add_record", x_api_key, patient_uid))
       ELSE IF "category" \notin DOMAIN record \/ "timestamp" \notin DOMAIN record
       THEN Finish(w, ServerError("add_record", "KeyError"))
       ELSE IF ~record.timestamp.wellformed
       THEN Finish(w, ServerError("add_record", "ValueError"))
       ELSE IF "content" \notin DOMAIN record
       THEN Finish(w, ServerError("add_record", "KeyError"))
       ELSE Proceed(w, "add_record", PatientByUid(patient_uid), Record(record))
    /\ UNCHANGED <<patients, records, dbUp, submitted>>

\* s.commit() and the return
AddRecordCommit(w) ==
    /\ pc[w] = "found"
    /\ call[w].op = "add_record"
    /\ IF ~dbUp
       THEN /\ Finish(w, ServerError("add_record", "OperationalError"))
            /\ UNCHANGED <<records, submitted>>
       ELSE /\ records' = Append(records, RecordRow(call[w].p, call[w].r))
            /\ submitted' = Append(submitted,
                                   [patient_id |-> call[w].p,
                                    category |-> call[w].r.category,
                                    content |-> call[w].r.content])
            /\ Finish(w, Response("add_record", 200, "", [status |-> "record added"]))
    /\ UNCHANGED <<patients, dbUp>>

\* The ids of the records rows of patient p.
RecordsOf(p) == {i \in DOMAIN records : records[i].patient_id = p}

\* s.query(Record).filter(Record.patient == p).order_by(Record.timestamp).all()
QueryRecords(p) ==
    OrderBy(RecordsOf(p), [i \in RecordsOf(p) |-> records[i].timestamp])

RecordView(r) ==
    [category |-> r.category, timestamp |-> r.timestamp,
     content |-> JsonLoads(r.content)]

GetRecordsLookup(w, x_api_key, patient_uid) ==
    /\ pc[w] = "idle"
    /\ IF Lookup("get_records", x_api_key, patient_uid) # NoResp
       THEN Finish(w, Lookup("get_records", x_api_key, patient_uid))
       ELSE Proceed(w, "get_records", PatientByUid(patient_uid), NoRecord)
    /\ UNCHANGED <<patients, records, dbUp, submitted>>

GetRecordsQuery(w) ==
    /\ pc[w] = "found"
    /\ call[w].op = "get_records"
    /\ IF ~dbUp
       THEN Finish(w, ServerError("get_records", "OperationalError"))
       ELSE \E recs \in QueryRecords(call[w].p) :
                Finish(w, Response("get_records", 200, "",
                                   [i \in DOMAIN recs |-> RecordView(records[recs[i]])]))
    /\ UNCHANGED <<patients, records, dbUp, submitted>>

(***************************************************************************)
(* HEURISTIC AI SUMMARY                                                    *)
(*                                                                         *)
(* A text is kept as the parts a join or an f-string puts together.        *)
(***************************************************************************)
Join(sep, parts) == [sep |-> sep, parts |-> parts]
Literal(s) == Join("", <<JStr(s)>>)

\* The joined string is empty (falsy): nothing was joined, or one empty string.
IsEmptyText(t) == t.parts = <<>> \/ t.parts = <<JStr("")>>

\* text or placeholder
OrElse(t, placeholder) == IF IsEmptyText(t) THEN Literal(placeholder) ELSE t

\* r.timestamp.strftime('%Y-%m-%d %H:%M')
Strftime(ts) == [date |-> ts \div TicksPerDay, time |-> ts % TicksPerDay]

\* f"- {r.timestamp.strftime('%Y-%m-%d %H:%M')} {r.category}: {r.content}"
Line(r) == [when |-> Strftime(r.timestamp), category |-> r.category,
            content |-> r.content]

\* (r.category or "").lower(), spelled out
CategoryLower(r) ==
    Lower(Spell(IF r.category.kind = "string" THEN r.category.text ELSE ""))

\* The rows of recs, in order, whose lower-cased category contains needle.
RECURSIVE Bucket(_, _)
Bucket(recs, needle) ==
    IF recs = <<>> THEN <<>>
    ELSE (IF Contains(CategoryLower(recs[1]), Spell(needle))
          THEN <<recs[1]>> ELSE <<>>)
         \o Bucket(Tail(recs), needle)

\* (the + 1 applied whether or not there are records)
NumDaysAlwaysPlusOne(recs) ==
    (IF recs # <<>>
     THEN (recs[Len(recs)].timestamp - recs[1].timestamp) \div TicksPerDay
     ELSE 0) + 1

\* (the dates subtracted, not the timestamps)
NumDaysByDate(recs) ==
    IF recs # <<>>
    THEN ((recs[Len(recs)].timestamp \div TicksPerDay)
          - (recs[1].timestamp \div TicksPerDay)) + 1
    ELSE 0

\* (recs[-1].timestamp - recs[0].timestamp).days + 1 if recs else 0
NumDays(recs) ==
    IF recs # <<>>
    THEN ((recs[Len(recs)].timestamp - recs[1].timestamp) \div TicksPerDay) + 1
    ELSE 0

\* The value ai_summary returns for patient row p and its records recs, as the
\* query returned them.
SummaryBody(p, recs) ==
    LET summary_lines == [i \in DOMAIN recs |-> Line(recs[i])]
        diag == Bucket(recs, "diag")
        lie == Bucket(recs, "lie")
        diagnoses == [i \in DOMAIN diag |-> diag[i].content]
        therapies == [i \in DOMAIN lie |-> lie[i].content]
        labs == Bucket(recs, "lab")
        visits == Bucket(recs, "viz")
        num_days == NumDays(recs)
    IN  [diagnoses |-> OrElse(Join("\n", diagnoses), "bez diagnozy"),
         timeline |-> Join("\n", summary_lines),
         stats |-> [pocet_zaznamov |-> Len(recs),
                    pocet_vizit |-> Len(visits),
                    pocet_lab |-> Len(labs),
                    pocet_liecby |-> Len(therapies),
                    dlzka_hospitalizacie_dni |-> num_days],
         labs |-> [i \in DOMAIN labs |->
                      [time |-> labs[i].timestamp, data |-> labs[i].content]],
         discharge_draft |->
             [pacient |-> <<p.first_name, p.last_name, p.patient_uid>>,
              pohlavie |-> p.gender,
              diagnozy |-> OrElse(Join("; ", diagnoses), "bez diagnozy"),
              priebeh |-> Join("\n", summary_lines),
              liecba |-> OrElse(Join("\n", therapies), "bez liecby"),
              dlzka_hospitalizacie |-> num_days]]

AiSummaryLookup(w, x_api_key, patient_uid) ==
    /\ pc[w] = "idle"
    /\ IF Lookup("ai_summary", x_api_key, patient_uid) # NoResp
       THEN Finish(w, Lookup("ai_summary", x_api_key, patient_uid))
       ELSE Proceed(w, "ai_summary", PatientByUid(patient_uid), NoRecord)
    /\ UNCHANGED <<patients, records, dbUp, submitted>>

AiSummaryQuery(w) ==
    /\ pc[w] = "found"
    /\ call[w].op = "ai_summary"
    /\ IF ~dbUp
       THEN Finish(w, ServerError("ai_summary", "OperationalError"))
       ELSE \E recs \in QueryRecords(call[w].p) :
                Finish(w, Response("ai_summary", 200, "",
                                   SummaryBody(patients[call[w].p],
                                               [i \in DOMAIN recs |->
                                                   RecordView(records[recs[i]])])))
    /\ UNCHANGED <<patients, records, dbUp, submitted>>

(***************************************************************************)
(* The environment: the database becomes unreachable and reachable again,  *)
(* and a worker hands its response to the client.                          *)
(***************************************************************************)
DbFail ==
    /\ dbUp
    /\ dbUp' = FALSE
    /\ UNCHANGED <<patients, records, pc, call, resp, submitted>>

DbRecover ==
    /\ ~dbUp
    /\ dbUp' = TRUE
    /\ UNCHANGED <<patients, records, pc, call, resp, submitted>>

Return(w) ==
    /\ pc[w] = "done"
    /\ pc' = [pc EXCEPT ![w] = "idle"]
    /\ resp' = [resp EXCEPT ![w] = NoResp]
    /\ UNCHANGED <<patients, records, dbUp, call, submitted>>

(***************************************************************************)
(* Spec: the whole API served by one worker, one request at a time, with   *)
(* the database failing and recovering at any point.                       *)
(***************************************************************************)
Server == {"w1"}

Next ==
    \/ \E w \in Server : Health(w)
    \/ \E w \in Server, k \in Keys, b \in PatientBodies : CreatePatient(w, k, b)
    \/ \E w \in Server, k \in Keys : ListPatients(w, k)
    \/ \E w \in Server, k \in Keys, u \in UIDs, r \in RecordBodies :
           AddRecordLookup(w, k, u, r)
    \/ \E w \in Server : AddRecordCommit(w)
    \/ \E w \in Server, k \in Keys, u \in UIDs : GetRecordsLookup(w, k, u)
    \/ \E w \in Server : GetRecordsQuery(w)
    \/ \E w \in Server, k \in Keys, u \in UIDs : AiSummaryLookup(w, k, u)
    \/ \E w \in Server : AiSummaryQuery(w)
    \/ \E w \in Server : Return(w)
    \/ DbFail
    \/ DbRecover

Spec == Init /\ [][Next]_vars

(***************************************************************************)
(* SpecConcurrent: the handlers that write and list patients and records,  *)
(* run by all the workers at once, with the database reachable.            *)
(***************************************************************************)
NextConcurrent ==
    \/ \E w \in Workers, k \in Keys, b \in PatientBodies : CreatePatient(w, k, b)
    \/ \E w \in Workers, k \in Keys, u \in UIDs, r \in RecordBodies :
           AddRecordLookup(w, k, u, r)
    \/ \E w \in Workers : AddRecordCommit(w)
    \/ \E w \in Workers, k \in Keys, u \in UIDs : GetRecordsLookup(w, k, u)
    \/ \E w \in Workers : GetRecordsQuery(w)
    \/ \E w \in Workers : Return(w)

SpecConcurrent == Init /\ [][NextConcurrent]_vars

(***************************************************************************)
(* What the properties below speak of.                                     *)
(***************************************************************************)
ValidKey == Header(API_KEY)
Known(uid) == \E i \in DOMAIN patients : patients[i].patient_uid = uid
Finished(w, op) == pc[w] = "done" /\ resp[w].op = op

\* w makes a call to a protected operation with the credential k.
ProtectedCall(w, k) ==
    \/ \E b \in PatientBodies : CreatePatient(w, k, b)
    \/ ListPatients(w, k)
    \/ \E u \in UIDs, r \in RecordBodies : AddRecordLookup(w, k, u, r)
    \/ \E u \in UIDs : GetRecordsLookup(w, k, u)
    \/ \E u \in UIDs : AiSummaryLookup(w, k, u)

(***************************************************************************)
(* C1: a call to a protected operation (create patient, list patients, add *)
(* record, list records, generate summary) whose x-api-key is missing or   *)
(* differs from the configured secret is rejected as unauthorized (the     *)
(* handler's "Invalid API key" error) and leaves the stored patients and   *)
(* records exactly as they were.                                           *)
(***************************************************************************)
C1_BadKeyRejectedWithoutEffect ==
    [][\A w \in Workers, k \in Keys :
          (k # ValidKey /\ ProtectedCall(w, k))
          => /\ pc'[w] = "done"
             /\ resp'[w].status = Unauthorized
             /\ resp'[w].detail = "Invalid API key"
             /\ patients' = patients
             /\ records' = records]_vars

\* A call to add_record was rejected for its key while both tables hold rows.
C1_Witness ==
    \E w \in Workers :
        /\ Finished(w, "add_record")
        /\ resp[w].status = Unauthorized
        /\ patients # <<>>
        /\ records # <<>>

(***************************************************************************)
(* C2: whatever create-patient calls were made, one after the other or     *)
(* concurrently with other handlers in flight, the store holds at most one *)
(* patient row per UID.                                                    *)
(***************************************************************************)
C2_OneRowPerUid ==
    \A i, j \in DOMAIN patients :
        patients[i].patient_uid = patients[j].patient_uid => i = j

\* A second create of a stored UID has been answered, and the UID has one row.
C2_Witness ==
    \E w \in Workers :
        /\ Finished(w, "create_patient")
        /\ resp[w].detail = "IntegrityError"
        /\ Cardinality({i \in DOMAIN patients : patients[i].patient_uid = "P001"}) = 1
        /\ \E v \in Workers : v # w /\ pc[v] = "found"

(***************************************************************************)
(* C3: a create-patient call with a valid key whose UID is already stored  *)
(* either returns the existing patient's identity or fails with Conflict   *)
(* (HTTP 400), never with another error, and leaves the stored patients    *)
(* unchanged.  (Stated for a reachable database.)                          *)
(***************************************************************************)
C3_DuplicateIsIdempotentOrConflict ==
    [][\A w \in Workers, b \in PatientBodies :
          (/\ CreatePatient(w, ValidKey, b)
           /\ dbUp
           /\ "patient_uid" \in DOMAIN b
           /\ Known(b.patient_uid))
          => /\ \/ /\ resp'[w].status = 200
                   /\ resp'[w].body.id = PatientByUid(b.patient_uid)
                   /\ resp'[w].body.patient_uid = b.patient_uid
                \/ resp'[w].status = 400
             /\ patients' = patients]_vars

(***************************************************************************)
(* C4: an add-record call with a valid key for a patient UID that is not   *)
(* in the (reachable) store fails with NotFound, and the stored patients   *)
(* and records are unchanged.                                              *)
(***************************************************************************)
C4_UnknownPatientNotFound ==
    [][\A w \in Workers, u \in UIDs, r \in RecordBodies :
          (AddRecordLookup(w, ValidKey, u, r) /\ dbUp /\ ~Known(u))
          => /\ pc'[w] = "done"
             /\ resp'[w].status = 404
             /\ patients' = patients
             /\ records' = records]_vars

\* add_record answered 404 while both tables hold rows.
C4_Witness ==
    \E w \in Workers :
        /\ Finished(w, "add_record")
        /\ resp[w].status = 404
        /\ patients # <<>>
        /\ records # <<>>

(***************************************************************************)
(* C5: list-records returns all of the patient's records and no other      *)
(* patient's, in ascending timestamp order, records with equal timestamps  *)
(* in the order in which they were inserted.                               *)
(***************************************************************************)
\* The patient's rows by timestamp, then by id.
StableOrder(p) ==
    CHOOSE s \in [1..Cardinality(RecordsOf(p)) -> RecordsOf(p)] :
        \A i, j \in DOMAIN s :
            i < j => \/ records[s[i]].timestamp < records[s[j]].timestamp
                     \/ /\ records[s[i]].timestamp = records[s[j]].timestamp
                        /\ s[i] < s[j]

C5_ListedByTimestampThenInsertion ==
    [][\A w \in Workers :
          (GetRecordsQuery(w) /\ resp'[w].status = 200)
          => resp'[w].body = [i \in 1..Cardinality(RecordsOf(call[w].p)) |->
                                 RecordView(records[StableOrder(call[w].p)[i]])]]_vars

(***************************************************************************)
(* C6: no operation removes or alters a stored record, and a list-records  *)
(* call that succeeds returns, for every record added to the patient so    *)
(* far, an entry with the category and the content it was submitted with   *)
(* (and no further entries), whatever ran in between.                      *)
(***************************************************************************)
SubmittedFor(p) == {i \in DOMAIN submitted : submitted[i].patient_id = p}

C6_RecordsKeptAndReturnedAsSubmitted ==
    [][/\ Len(records') >= Len(records)
       /\ \A i \in DOMAIN records : records'[i] = records[i]
       /\ \A w \in Workers :
             (GetRecordsQuery(w) /\ resp'[w].status = 200)
             => \E f \in [DOMAIN resp'[w].body -> SubmittedFor(call[w].p)] :
                   /\ \A i \in SubmittedFor(call[w].p) :
                         \E k \in DOMAIN f : f[k] = i
                   /\ \A k, l \in DOMAIN f : f[k] = f[l] => k = l
                   /\ \A k \in DOMAIN f :
                         /\ resp'[w].body[k].category = submitted[f[k]].category
                         /\ resp'[w].body[k].content = submitted[f[k]].content]_vars

\* A listing of two records, one with structured content, is held by one worker
\* while the other is in the middle of a handler.
C6_Witness ==
    \E w \in Workers :
        /\ Finished(w, "get_records")
        /\ resp[w].status = 200
        /\ Len(resp[w].body) = 2
        /\ \E k \in DOMAIN resp[w].body : resp[w].body[k].content = CRP150
        /\ \E v \in Workers : v # w /\ pc[v] = "found"

(***************************************************************************)
(* C7: an add-record call with a valid key for an existing patient that    *)
(* supplies content but omits the category and/or the timestamp is         *)
(* accepted and stores one record (with the classifier's category and the  *)
(* current time standing in for what was omitted).  Stated here as: such a *)
(* call is not answered with an error and goes on to store a record with   *)
(* the submitted content.                                                  *)
(***************************************************************************)
C7_OmittedFieldsAreDefaulted ==
    [][\A w \in Workers, u \in UIDs, r \in RecordBodies :
          (/\ AddRecordLookup(w, ValidKey, u, r)
           /\ dbUp
           /\ Known(u)
           /\ "content" \in DOMAIN r
           /\ ("category" \notin DOMAIN r \/ "timestamp" \notin DOMAIN r))
          => /\ pc'[w] = "found"
             /\ call'[w].r.content = r.content]_vars

(***************************************************************************)
(* C8: with the store reachable, generate-summary with a valid key for an  *)
(* existing patient succeeds; when the patient has no records the result   *)
(* has record count 0, day-span 0, an empty timeline, and the diagnosis    *)
(* and therapy sections of the draft show their placeholders.              *)
(***************************************************************************)
C8_SummarySucceedsAndEmptyHasPlaceholders ==
    [][\A w \in Workers :
          /\ \A u \in UIDs :
                (AiSummaryLookup(w, ValidKey, u) /\ dbUp /\ Known(u))
                => pc'[w] = "found"
          /\ (AiSummaryQuery(w) /\ dbUp)
             => /\ resp'[w].status = 200
                /\ RecordsOf(call[w].p) = {}
                   => /\ resp'[w].body.stats.pocet_zaznamov = 0
                      /\ resp'[w].body.stats.dlzka_hospitalizacie_dni = 0
                      /\ resp'[w].body.timeline.parts = <<>>
                      /\ resp'[w].body.diagnoses = Literal("bez diagnozy")
                      /\ resp'[w].body.discharge_draft.diagnozy = Literal("bez diagnozy")
                      /\ resp'[w].body.discharge_draft.priebeh.parts = <<>>
                      /\ resp'[w].body.discharge_draft.liecba = Literal("bez liecby")
                      /\ resp'[w].body.discharge_draft.dlzka_hospitalizacie = 0]_vars

\* A summary of a patient without records has been produced while another
\* patient has records.
C8_Witness ==
    \E w \in Workers :
        /\ Finished(w, "ai_summary")
        /\ resp[w].status = 200
        /\ resp[w].body.stats.pocet_zaznamov = 0
        /\ records # <<>>

(***************************************************************************)
(* C9: the health operation needs no credential and answers 200 in every   *)
(* state; when the database is unreachable its payload carries the status  *)
(* "db_error", and "ok" otherwise.                                         *)
(***************************************************************************)
C9_HealthReportsStorage ==
    [][\A w \in Workers :
          Health(w)
          => /\ resp'[w].status = 200
             /\ resp'[w].body.status = IF dbUp THEN "ok" ELSE "db_error"]_vars

(***************************************************************************)
(* C10 as claimed: the summary's day-span is the calendar date of the      *)
(* latest record minus the calendar date of the earliest, in days, plus 1; *)
(* 0 when the patient has no records.                                      *)
(***************************************************************************)
Earliest(p) ==
    CHOOSE t \in {records[i].timestamp : i \in RecordsOf(p)} :
        \A i \in RecordsOf(p) : t <= records[i].timestamp
Latest(p) ==
    CHOOSE t \in {records[i].timestamp : i \in RecordsOf(p)} :
        \A i \in RecordsOf(p) : t >= records[i].timestamp
DateOf(t) == t \div TicksPerDay
DaySpan(w) == resp'[w].body.stats.dlzka_hospitalizacie_dni

IsHighCrpLine(part) ==
    /\ "category" \in DOMAIN part
    /\ part.category.kind = "string"
    /\ Contains(Lower(Spell(part.category.text)), Spell("lab"))
    /\ part.content.kind = "object"
    /\ \E m \in DOMAIN part.content.members :
          /\ part.content.members[m].key = "test"
          /\ part.content.members[m].value = JStr("CRP")
    /\ \E m \in DOMAIN part.content.members :
          /\ part.content.members[m].key = "value"
          /\ part.content.members[m].value.kind = "number"
          /\ part.content.members[m].value.num >= 100

\* The timeline part is an annotation line, not the line of a record.
IsAnnotation(part) == "category" \notin DOMAIN part

C11_HighCrpIsAnnotated ==
    [][\A w \in Workers :
          (AiSummaryQuery(w) /\ resp'[w].status = 200)
          => LET parts == resp'[w].body.timeline.parts
             IN  /\ \A k \in DOMAIN parts :
                       IsHighCrpLine(parts[k])
                       => /\ k + 1 \in DOMAIN parts
                          /\ IsAnnotation(parts[k + 1])
                 /\ \A k \in DOMAIN parts :
                       IsAnnotation(parts[k])
                       => /\ k - 1 \in DOMAIN parts
                          /\ IsHighCrpLine(parts[k - 1])]_vars

====
